---------------------------- MODULE Spec2Model ----------------------------
(***************************************************************************)
(* A model of the DICOM data dictionary of dicom-rs:                       *)
(*   - TagRange (core/src/dictionary/mod.rs): containment and parsing;     *)
(*   - the standard dictionary registry (dictionary-std/src/lib.rs): the   *)
(*     lazily built index by alias and by tag;                             *)
(*   - XmlEntryIterator (dictionary-builder/main.rs): the extraction of    *)
(*     the attribute table from the DocBook source of PS3.6.               *)
(* Text is modelled as a sequence of one-character strings.                *)
(***************************************************************************)
EXTENDS Integers, Sequences, FiniteSets, TLC

VARIABLES
    range,        \* TagRange under test (contains / rendering)
    queryTag,     \* Tag given to TagRange::contains
    containsRes,  \* Some(result of TagRange::contains), None before the call
    inputShape,   \* how the text given to from_str was put together
    input,        \* the text given to from_str
    parsed,       \* Some(Result<TagRange, TagRangeParseError> of from_str), None before
    ENTRIES,      \* the generated table entries::ENTRIES
    once,         \* state of the Once that guards DICT
    DICT,         \* the lazy static: None, or Some(the registry init_dictionary returned)
    tpc,          \* where each thread is
    d,            \* init_dictionary's local registry, per thread running it
    cursor,       \* how many entries init_dictionary has indexed, per thread
    lookups,      \* what each thread's lookup returned, None before it returns
    initRuns,     \* how many times init_dictionary has been started
    docShape,     \* how the document given to XmlEntryIterator::new was put together
    doc,          \* the events the Reader delivers for the document, in order
    pos,          \* how many of them read_event has delivered
    it,           \* the XmlEntryIterator: depth, tag, name, keyword, vr, vm, obs, state
    yielded,      \* what the calls of next have returned, in order
    panicked,     \* whether a call of next has panicked
    config,       \* main's arguments: FORMAT, no-retired, and whether FROM is a URL
    xml_entries,  \* the records handed to to_code_file / to_json_file, in order
    epos,         \* how many of them the emission has consumed
    epc,          \* where the emission is
    codeFile,     \* what has been written to the generated table, in order
    btree,        \* the BTreeMap to_json_file collects
    jsonFile      \* what to_writer has written: the pairs of key and value, in order

rangeVars == <<range, queryTag, containsRes, inputShape, input, parsed>>

registryVars == <<ENTRIES, once, DICT, tpc, d, cursor, lookups, initRuns>>

xmlVars == <<docShape, doc, pos, it, yielded, panicked>>

emitVars == <<config, xml_entries, epos, epc, codeFile, btree, jsonFile>>

vars == <<rangeVars, registryVars, xmlVars, emitVars>>

\* Option<T>: None is the empty sequence, Some(v) the sequence of v alone.
None == <<>>

Some(v) == <<v>>

\* Option::unwrap on a Some
unwrap(o) == o[1]

\* XmlEntryIterator::new
XmlNew ==
    [depth |-> 0, tag |-> None, name |-> None, keyword |-> None, vr |-> None,
     vm |-> None, obs |-> None, state |-> "Off"]

NoDocShape ==
    [rows |-> <<>>, before |-> FALSE, after |-> FALSE, fault |-> "none",
     id |-> "id_target"]

XmlIdle ==
    /\ docShape = NoDocShape
    /\ doc = <<>>
    /\ pos = 0
    /\ it = XmlNew
    /\ yielded = <<>>
    /\ panicked = FALSE

EmitIdle ==
    /\ config = [format |-> "rs", no_retired |-> FALSE, url |-> FALSE]
    /\ xml_entries = <<>>
    /\ epos = 0
    /\ epc = "idle"
    /\ codeFile = <<>>
    /\ btree = <<>>
    /\ jsonFile = <<>>

(***************************************************************************)
(* Tag and TagRange                                                        *)
(***************************************************************************)

\* Tag(group, element), both u16
Tag(g, e) == [group |-> g, element |-> e]

\* enum TagRange { Single(Tag), Group100(Tag), Element100(Tag) }
Single(t) == [kind |-> "Single", inner |-> t]

Group100(t) == [kind |-> "Group100", inner |-> t]

Element100(t) == [kind |-> "Element100", inner |-> t]

TagRangeKinds == {"Single", "Group100", "Element100"}

\* TagRange::inner
inner(r) == r.inner

\* u16 >> 8
Shr8(v) == v \div 256

\* A plausible slip: the nibble is shifted out instead of the byte.
Shr8Nibble(v) == v \div 16

\* The shift used by TagRange::contains
ContainsShift(v) == Shr8(v)

\* TagRange::contains
contains(r, t) ==
    CASE r.kind = "Single" -> r.inner = t
      [] r.kind = "Group100" ->
            ContainsShift(r.inner.group) = ContainsShift(t.group)
            /\ r.inner.element = t.element
      [] r.kind = "Element100" ->
            r.inner.group = t.group
            /\ ContainsShift(r.inner.element) = ContainsShift(t.element)

(***************************************************************************)
(* Parsing: impl FromStr for TagRange                                      *)
(***************************************************************************)

\* char::to_digit(16): the digit's value, -1 for None
to_digit(c) ==
    CASE c = "0" -> 0 [] c = "1" -> 1 [] c = "2" -> 2 [] c = "3" -> 3
      [] c = "4" -> 4 [] c = "5" -> 5 [] c = "6" -> 6 [] c = "7" -> 7
      [] c = "8" -> 8 [] c = "9" -> 9
      [] c \in {"a", "A"} -> 10 [] c \in {"b", "B"} -> 11
      [] c \in {"c", "C"} -> 12 [] c \in {"d", "D"} -> 13
      [] c \in {"e", "E"} -> 14 [] c \in {"f", "F"} -> 15
      [] OTHER -> -1

RECURSIVE AccumulateDigits(_, _)
\* the digit loop of from_str_radix: acc * 16 + digit, left to right
AccumulateDigits(digits, acc) ==
    IF digits = <<>> THEN acc
    ELSE AccumulateDigits(Tail(digits), acc * 16 + to_digit(Head(digits)))

\* The sign handling of from_str_radix for an unsigned type: one leading `+` is
\* taken off, a leading `-` stays among the digits (and is then no digit).
StripSign(src) == IF Head(src) = "+" THEN Tail(src) ELSE src

\* u16::from_str_radix(src, 16): [ok |-> TRUE, value] or [ok |-> FALSE]
from_str_radix(src) ==
    IF src = <<>> THEN [ok |-> FALSE]
    ELSE IF Len(src) = 1 /\ Head(src) \in {"+", "-"} THEN [ok |-> FALSE]
    ELSE LET digits == StripSign(src)
             v == AccumulateDigits(digits, 0)
         IN  IF \E i \in 1..Len(digits) : to_digit(digits[i]) < 0
                 THEN [ok |-> FALSE]
             ELSE IF v > 65535 THEN [ok |-> FALSE]
             ELSE [ok |-> TRUE, value |-> v]

\* u16 << 8
Shl8(v) == (v * 256) % 65536

\* A plausible slip: the shift is forgotten.
Shl8Forgotten(v) == v

\* The shift applied to the two leading digits of a wildcard field
WildcardShift(v) == Shl8(v)

RECURSIVE SplitFrom(_, _)
\* str::split(','): the fields between commas, cur being the field under way
SplitFrom(s, cur) ==
    IF s = <<>> THEN <<cur>>
    ELSE IF Head(s) = "," THEN <<cur>> \o SplitFrom(Tail(s), <<>>)
    ELSE SplitFrom(Tail(s), Append(cur, Head(s)))

split(s) == SplitFrom(s, <<>>)

\* A plausible slip: the enclosing parentheses are never taken off.
StripParensNever(s) == s

\* s.starts_with('(') && s.ends_with(')') => s = &s[1 .. s.len() - 1]
StripParens(s) ==
    IF Len(s) >= 1 /\ s[1] = "(" /\ s[Len(s)] = ")"
        THEN SubSeq(s, 2, Len(s) - 1)
        ELSE s

\* &field.as_bytes()[2..] == b"xx"
EndsXX(field) == SubSeq(field, 3, Len(field)) = <<"x", "x">>

Ok(v) == [ok |-> TRUE, value |-> v]

\* Err(TagRangeParseError(msg))
Err(msg) == [ok |-> FALSE, err |-> msg]

\* The messages of TagRangeParseError; the source's backquotes are written '.
ErrNoGroup == "not enough tag components, expected 'group,element'"

ErrNoElement == "not enough tag components, expected 'element'"

ErrGroupLen == "tag component 'group' has an invalid length, must be 4"

ErrElementLen == "tag component 'element' has an invalid length, must be 4"

ErrUnsupported == "unsupported tag range"

ErrGroup == "Invalid component 'group'"

ErrElement == "Invalid component 'element'"

\* The arm of from_str for (b"xx", _)
Group100Arm(group, elem) ==
    LET g == from_str_radix(SubSeq(group, 1, 2))
        e == from_str_radix(elem)
    IN  IF ~g.ok THEN Err(ErrGroup)
        ELSE IF ~e.ok THEN Err(ErrElement)
        ELSE Ok(Group100(Tag(WildcardShift(g.value), e.value)))

\* The arm of from_str for (_, b"xx")
Element100Arm(group, elem) ==
    LET g == from_str_radix(group)
        e == from_str_radix(SubSeq(elem, 1, 2))
    IN  IF ~g.ok THEN Err(ErrGroup)
        ELSE IF ~e.ok THEN Err(ErrElement)
        ELSE Ok(Element100(Tag(g.value, WildcardShift(e.value))))

\* The arm of from_str for (_, _)
SingleArm(group, elem) ==
    LET g == from_str_radix(group)
        e == from_str_radix(elem)
    IN  IF ~g.ok THEN Err(ErrGroup)
        ELSE IF ~e.ok THEN Err(ErrElement)
        ELSE Ok(Single(Tag(g.value, e.value)))

\* A plausible slip: the both-wildcard arm is missing, so that the input falls
\* into the group wildcard arm.
BothWildcardArmMissing(group, elem) == Group100Arm(group, elem)

\* The arm of from_str for (b"xx", b"xx")
BothWildcardArm(group, elem) == Err(ErrUnsupported)

\* match (&group.as_bytes()[2..], &elem.as_bytes()[2..])
MatchArms(group, elem) ==
    IF EndsXX(group) /\ EndsXX(elem) THEN BothWildcardArm(group, elem)
    ELSE IF EndsXX(group) THEN Group100Arm(group, elem)
    ELSE IF EndsXX(elem) THEN Element100Arm(group, elem)
    ELSE SingleArm(group, elem)

\* <TagRange as FromStr>::from_str
from_str(s0) ==
    LET s == StripParens(s0)
        parts == split(s)
    IN  IF Len(parts) < 1 THEN Err(ErrNoGroup)
        ELSE IF Len(parts) < 2 THEN Err(ErrNoElement)
        ELSE LET group == parts[1]
                 elem == parts[2]
             IN  IF Len(group) # 4 THEN Err(ErrGroupLen)
                 ELSE IF Len(elem) # 4 THEN Err(ErrElementLen)
                 ELSE MatchArms(group, elem)


(***************************************************************************)
(* Inputs of the TagRange operations                                       *)
(***************************************************************************)

\* 16-bit values with equal and different high and low bytes:
\* 0x0000, 0x0001, 0x00FF, 0x1200, 0x1234, 0x12FF, 0xAF00, 0xFFFF
SampleU16 == {0, 1, 255, 4608, 4660, 4863, 44800, 65535}

SampleTags == {Tag(g, e) : g \in SampleU16, e \in SampleU16}

SampleRanges ==
    {[kind |-> k, inner |-> t] : k \in TagRangeKinds, t \in SampleTags}

\* Halves of a field: two hex digits (both cases), a sign and a digit, a letter
\* that is no hex digit, the wildcard, and a half that is one character short.
Halves ==
    { <<"1", "2">>, <<"a", "F">>, <<"+", "1">>, <<"-", "1">>, <<"1", "g">>,
      <<"x", "x">>, <<"7">> }

Fields == {hi \o lo : hi \in Halves, lo \in Halves}

\* The text is 1, 2 or 3 comma separated components, inside both, one or no
\* parenthesis.
ParenShapes == {"none", "both", "open", "close"}

ThirdComponent == <<"9", "A", "B", "C">>

InputShapes ==
    {[group |-> g, elem |-> e, comps |-> c, paren |-> p] :
        g \in Fields, e \in Fields, c \in {2, 3}, p \in ParenShapes}
    \cup
    {[group |-> g, elem |-> <<>>, comps |-> 1, paren |-> p] :
        g \in Fields, p \in ParenShapes}

TextOf(sh) ==
    LET body == CASE sh.comps = 1 -> sh.group
                  [] sh.comps = 2 -> sh.group \o <<",">> \o sh.elem
                  [] sh.comps = 3 ->
                        sh.group \o <<",">> \o sh.elem \o <<",">> \o ThirdComponent
    IN  (IF sh.paren \in {"both", "open"} THEN <<"(">> ELSE <<>>)
        \o body
        \o (IF sh.paren \in {"both", "close"} THEN <<")">> ELSE <<>>)

NoShape == [group |-> <<>>, elem |-> <<>>, comps |-> 0, paren |-> "none"]

NoTag == Tag(0, 0)

NoRange == Single(NoTag)

ParseIdle == inputShape = NoShape /\ input = <<>> /\ parsed = None

RangeIdle == range = NoRange /\ queryTag = NoTag /\ containsRes = None /\ ParseIdle

RECURSIVE SeqsUpTo(_, _)
\* the sequences over S of length at most n
SeqsUpTo(S, n) ==
    IF n = 0 THEN {<<>>}
    ELSE LET shorter == SeqsUpTo(S, n - 1)
         IN  shorter \cup {Append(q, x) : q \in {r \in shorter : Len(r) = n - 1}, x \in S}

(***************************************************************************)
(* The standard dictionary registry                                        *)
(***************************************************************************)

\* DictionaryEntryRef { tag, alias, vr }
E(t, a, v) == [tag |-> t, alias |-> a, vr |-> v]

\* const META_ENTRIES
META_ENTRIES ==
    << E(Single(Tag(2, 0)), "FileMetaInformationGroupLength", "UL"),
       E(Single(Tag(2, 1)), "FileMetaInformationVersion", "OB"),
       E(Single(Tag(2, 2)), "MediaStorageSOPClassUID", "UI"),
       E(Single(Tag(2, 3)), "MediaStorageSOPInstanceUID", "UI"),
       E(Single(Tag(2, 16)), "TransferSyntaxUID", "UI"),
       E(Single(Tag(2, 18)), "ImplementationClassUID", "UI"),
       E(Single(Tag(2, 19)), "ImplentationVersionName", "SH"),
       E(Single(Tag(2, 22)), "SourceApplicationEntityTitle", "AE"),
       E(Single(Tag(2, 23)), "SendingApplicationEntityTitle", "AE"),
       E(Single(Tag(2, 24)), "ReceivingApplicationEntityTitle", "AE"),
       E(Single(Tag(2, 256)), "PrivateInformationCreatorUID", "UI"),
       E(Single(Tag(2, 258)), "PrivateInformation", "OB") >>

\* Entries the generated table is drawn from: PatientName, an entry with the
\* same inner tag, an entry with the same alias, and an entry with the alias
\* and the tag of a metadata entry.
EntryPool ==
    { E(Single(Tag(16, 16)), "PatientName", "PN"),
      E(Group100(Tag(16, 16)), "PixelData", "OW"),
      E(Single(Tag(32736, 16)), "PatientName", "LO"),
      E(Single(Tag(2, 16)), "TransferSyntaxUID", "UN") }

\* The longest generated table of the model
MaxEntries == 2

\* The number of threads that use the dictionary
NumThreads == 2

Threads == 1..NumThreads

\* The list init_dictionary walks: ENTRIES, then META_ENTRIES. A position in it
\* stands for the reference &'static DictionaryEntryRef to that entry.
AllEntries(entries) == entries \o META_ENTRIES

\* HashMap::new()
EmptyMap == [k \in {} |-> 0]

\* HashMap::insert: the value replaces the one the key had
insert(map, k, v) == [x \in DOMAIN map \cup {k} |-> IF x = k THEN v ELSE map[x]]

\* A plausible slip: the first value of a key is kept (entry().or_insert).
insertFirstWins(map, k, v) ==
    [x \in DOMAIN map \cup {k} |-> IF x \in DOMAIN map THEN map[x] ELSE v]

\* The insertion used by StandardDictionaryRegistry::index
IndexInsert(map, k, v) == insert(map, k, v)

\* HashMap::get(..).cloned()
get(map, k) == IF k \in DOMAIN map THEN Some(map[k]) ELSE None

\* StandardDictionaryRegistry::new
new == [by_name |-> EmptyMap, by_tag |-> EmptyMap]

\* StandardDictionaryRegistry::index, ref being the reference to entry
index(reg, ref, entry) ==
    [by_name |-> IndexInsert(reg.by_name, entry.alias, ref),
     by_tag |-> IndexInsert(reg.by_tag, inner(entry.tag), ref)]

\* Once::call_once runs the closure of this caller
OnceRuns(st) == st = "INCOMPLETE"

\* A plausible slip: a caller that finds the initialization under way runs it too.
OnceRunsUnguarded(st) == st # "COMPLETE"

\* Whether this caller of call_once becomes the one that initializes
CallerInitializes(st) == OnceRuns(st)

\* The loops of init_dictionary are over: every entry has been indexed
AllIndexed(entries, n) == n = Len(AllEntries(entries))

\* A plausible slip: the second loop is missing, d is returned after ENTRIES.
AllIndexedNoMeta(entries, n) == n >= Len(entries)

\* init_dictionary returns d
InitReturns(entries, n) == AllIndexed(entries, n)

\* Keys of the lookups: of a standard entry, of a metadata entry that a standard
\* entry may collide with, and of no entry.
QueryNames == {"PatientName", "TransferSyntaxUID", "Modality"}

QueryTags == {Tag(16, 16), Tag(2, 16), Tag(8, 96)}

RegistryIdle ==
    /\ ENTRIES = <<>>
    /\ once = "INCOMPLETE"
    /\ DICT = None
    /\ tpc = [t \in Threads |-> "start"]
    /\ d = [t \in Threads |-> None]
    /\ cursor = [t \in Threads |-> 0]
    /\ lookups = [t \in Threads |-> None]
    /\ initRuns = 0

InitRegistry ==
    /\ RangeIdle
    /\ XmlIdle
    /\ EmitIdle
    /\ ENTRIES \in SeqsUpTo(EntryPool, MaxEntries)
    /\ once = "INCOMPLETE"
    /\ DICT = None
    /\ tpc = [t \in Threads |-> "start"]
    /\ d = [t \in Threads |-> None]
    /\ cursor = [t \in Threads |-> 0]
    /\ lookups = [t \in Threads |-> None]
    /\ initRuns = 0

\* registry(): &DICT, the Deref of the lazy static, calls Once::call_once. The
\* caller that finds the Once incomplete starts init_dictionary
\* (let mut d = StandardDictionaryRegistry::new()).
CallOnceRun(t) ==
    /\ tpc[t] = "start"
    /\ CallerInitializes(once)
    /\ once' = "RUNNING"
    /\ tpc' = [tpc EXCEPT ![t] = "init"]
    /\ d' = [d EXCEPT ![t] = Some(new)]
    /\ cursor' = [cursor EXCEPT ![t] = 0]
    /\ initRuns' = initRuns + 1
    /\ UNCHANGED <<ENTRIES, DICT, lookups>>
    /\ UNCHANGED rangeVars
    /\ UNCHANGED xmlVars
    /\ UNCHANGED emitVars

\* Once::call_once while another thread runs the closure: the caller blocks.
CallOnceWait(t) ==
    /\ tpc[t] = "start"
    /\ ~CallerInitializes(once)
    /\ once = "RUNNING"
    /\ tpc' = [tpc EXCEPT ![t] = "wait"]
    /\ UNCHANGED <<ENTRIES, once, DICT, d, cursor, lookups, initRuns>>
    /\ UNCHANGED rangeVars
    /\ UNCHANGED xmlVars
    /\ UNCHANGED emitVars

\* Once::call_once on a completed Once (also the wake-up of a blocked caller):
\* the caller goes on to read DICT.
CallOncePass(t) ==
    /\ tpc[t] \in {"start", "wait"}
    /\ once = "COMPLETE"
    /\ tpc' = [tpc EXCEPT ![t] = "read"]
    /\ UNCHANGED <<ENTRIES, once, DICT, d, cursor, lookups, initRuns>>
    /\ UNCHANGED rangeVars
    /\ UNCHANGED xmlVars
    /\ UNCHANGED emitVars

\* One turn of the loops of init_dictionary: d.index(&entry)
IndexEntry(t) ==
    /\ tpc[t] = "init"
    /\ ~InitReturns(ENTRIES, cursor[t])
    /\ LET ref == cursor[t] + 1
       IN  /\ d' = [d EXCEPT ![t] = Some(index(unwrap(d[t]), ref, AllEntries(ENTRIES)[ref]))]
           /\ cursor' = [cursor EXCEPT ![t] = ref]
    /\ UNCHANGED <<ENTRIES, once, DICT, tpc, lookups, initRuns>>
    /\ UNCHANGED rangeVars
    /\ UNCHANGED xmlVars
    /\ UNCHANGED emitVars

\* init_dictionary returns d: the lazy static stores it and the Once completes.
InitFinish(t) ==
    /\ tpc[t] = "init"
    /\ InitReturns(ENTRIES, cursor[t])
    /\ DICT' = d[t]
    /\ once' = "COMPLETE"
    /\ d' = [d EXCEPT ![t] = None]
    /\ tpc' = [tpc EXCEPT ![t] = "read"]
    /\ UNCHANGED <<ENTRIES, cursor, lookups, initRuns>>
    /\ UNCHANGED rangeVars
    /\ UNCHANGED xmlVars
    /\ UNCHANGED emitVars

\* StandardDataDictionary::by_name: registry().by_name.get(name).cloned()
by_name(t) ==
    /\ tpc[t] = "read"
    /\ \E name \in QueryNames :
          lookups' = [lookups EXCEPT ![t] =
              Some([op |-> "by_name", name |-> name, from |-> DICT,
                    result |-> get(unwrap(DICT).by_name, name)])]
    /\ tpc' = [tpc EXCEPT ![t] = "done"]
    /\ UNCHANGED <<ENTRIES, once, DICT, d, cursor, initRuns>>
    /\ UNCHANGED rangeVars
    /\ UNCHANGED xmlVars
    /\ UNCHANGED emitVars

\* StandardDataDictionary::by_tag: registry().by_tag.get(&tag).cloned()
by_tag(t) ==
    /\ tpc[t] = "read"
    /\ \E tag \in QueryTags :
          lookups' = [lookups EXCEPT ![t] =
              Some([op |-> "by_tag", tag |-> tag, from |-> DICT,
                    result |-> get(unwrap(DICT).by_tag, tag)])]
    /\ tpc' = [tpc EXCEPT ![t] = "done"]
    /\ UNCHANGED <<ENTRIES, once, DICT, d, cursor, initRuns>>
    /\ UNCHANGED rangeVars
    /\ UNCHANGED xmlVars
    /\ UNCHANGED emitVars

\* registry(): the caller keeps the reference to the registry
registry(t) ==
    /\ tpc[t] = "read"
    /\ lookups' = [lookups EXCEPT ![t] = Some([op |-> "registry", from |-> DICT])]
    /\ tpc' = [tpc EXCEPT ![t] = "done"]
    /\ UNCHANGED <<ENTRIES, once, DICT, d, cursor, initRuns>>
    /\ UNCHANGED rangeVars
    /\ UNCHANGED xmlVars
    /\ UNCHANGED emitVars

NextRegistry ==
    \E t \in Threads :
        \/ CallOnceRun(t)
        \/ CallOnceWait(t)
        \/ CallOncePass(t)
        \/ IndexEntry(t)
        \/ InitFinish(t)
        \/ by_name(t)
        \/ by_tag(t)
        \/ registry(t)

SpecRegistry == InitRegistry /\ [][NextRegistry]_vars

(***************************************************************************)
(* The document and its events (quick_xml::Reader)                         *)
(***************************************************************************)

\* One-character strings that stand for U+200B (zero width space) and for the
\* white space the Reader trims.
ZWSP == "ZWSP"

Space == " "

\* Event::Start(e): the element's local name and its attributes in order. An
\* attribute is the wanted xml:id="table_6-1" ("id_target"), another xml:id
\* ("id_other"), any other attribute ("other") or one the Reader cannot parse
\* ("malformed").
StartEv(n, attrs) == [type |-> "Start", name |-> n, attrs |-> attrs]

\* Event::End(e)
EndEv(n) == [type |-> "End", name |-> n]

\* Event::Text(data): the escaped bytes
TextEv(data) == [type |-> "Text", data |-> data]

\* Event::Decl, Comment, CData, PI, DocType
OtherEv == [type |-> "Other"]

\* Err(e) of read_event
ErrEv == [type |-> "Err"]

\* Event::Eof
EofEv == [type |-> "Eof"]

RECURSIVE TrimStart(_)
TrimStart(s) ==
    IF s # <<>> /\ Head(s) = Space THEN TrimStart(Tail(s)) ELSE s

RECURSIVE TrimEnd(_)
TrimEnd(s) ==
    IF s # <<>> /\ s[Len(s)] = Space THEN TrimEnd(SubSeq(s, 1, Len(s) - 1)) ELSE s

\* Reader::trim_text(true): character data reaches the iterator without the
\* white space around it, and not at all when nothing else is left.
TextEvents(raw) ==
    LET trimmed == TrimEnd(TrimStart(raw))
    IN  IF trimmed = <<>> THEN <<>> ELSE <<TextEv(trimmed)>>

\* <n>raw</n>, or <n/>, which expand_empty_elements(true) delivers as the pair
\* of a Start and an End as well
Element(n, attrs, inside) == <<StartEv(n, attrs)>> \o inside \o <<EndEv(n)>>

RowShapes == {"plain", "emph", "marked", "notag", "short", "long", "stub"}

\* The xml:id of the table that stands where the wanted table is looked for:
\* the wanted one, another one, or no xml:id at all.
TableIds == {"id_target", "id_other", "none"}

Faults == {"none", "readErr", "badAttr", "badText"}

\* The raw character data of cell col of the row-th row: r<row>c<col>; a marked
\* row has a zero width space inside (cell 1), white space around (cell 2), an
\* entity (cell 3), nothing but a zero width space (cell 4) and RET followed by
\* a zero width space (cell 6); the first cell of a notag row is empty; a short
\* row has its first three cells only; a long row has a seventh cell; a stub
\* row has three cells, the first of them empty.
CellRaw(row, col, shape) ==
    LET r == ToString(row)
        c == ToString(col)
    IN  CASE shape = "marked" /\ col = 1 -> <<"r", r, ZWSP, "c", c>>
          [] shape = "marked" /\ col = 2 -> <<Space, "r", r, "c", c, Space>>
          [] shape = "marked" /\ col = 3 -> <<"r", r, "&", "a", "m", "p", ";", "c", c>>
          [] shape = "marked" /\ col = 4 -> <<ZWSP>>
          [] shape = "marked" /\ col = 6 -> <<"R", "E", "T", ZWSP>>
          [] shape \in {"notag", "stub"} /\ col = 1 -> <<>>
          [] OTHER -> <<"r", r, "c", c>>

\* character data with an ampersand that starts no entity
BadText == <<"&", "x">>

\* <td><para>text</para></td>; the text of an emph row is inside <emphasis>.
Cell(raw, shape) ==
    Element("td", <<"other">>,
        Element("para", <<>>,
            IF shape = "emph" /\ raw # <<>>
                THEN Element("emphasis", <<"other">>, TextEvents(raw))
                ELSE TextEvents(raw)))

\* how many cells a row has
CellCount(shape) ==
    CASE shape \in {"short", "stub"} -> 3
      [] shape = "long" -> 7
      [] OTHER -> 6

RECURSIVE CellsFrom(_, _, _, _)
CellsFrom(row, col, shape, fault) ==
    IF col > CellCount(shape) THEN <<>>
    ELSE Cell(IF fault = "badText" /\ row = 1 /\ col = 2
                  THEN BadText ELSE CellRaw(row, col, shape), shape)
         \o CellsFrom(row, col + 1, shape, fault)

\* <tr> with its cells
Row(row, shape, fault) == Element("tr", <<>>, CellsFrom(row, 1, shape, fault))

RECURSIVE RowsFrom(_, _, _)
RowsFrom(rows, i, fault) ==
    IF i > Len(rows) THEN <<>>
    ELSE Row(i, rows[i], fault) \o RowsFrom(rows, i + 1, fault)

\* <thead><tr><th><para>Tag</para></th><th><para>Name</para></th></tr></thead>
TableHead ==
    Element("thead", <<>>,
        Element("tr", <<>>,
            Element("th", <<>>, Element("para", <<>>, TextEvents(<<"T", "a", "g">>)))
            \o Element("th", <<>>, Element("para", <<>>, TextEvents(<<"N", "a", "m", "e">>)))))

\* <table ...><thead/><tbody>rows</tbody></table>
Table(attrs, rowEvents) ==
    Element("table", attrs, TableHead \o Element("tbody", <<>>, rowEvents))

\* A table with another id and one row; its row is numbered 9.
OtherTable == Table(<<"other", "id_other">>, Row(9, "plain", "none"))

InsertAt(s, k, e) == SubSeq(s, 1, k) \o <<e>> \o SubSeq(s, k + 1, Len(s))

\* The attributes of the table's start tag after the first: its xml:id, if any
IdAttrs(id) == IF id = "none" THEN <<>> ELSE <<id>>

\* The target table, with a read error inside its first row (or, without rows,
\* inside its body) when the fault is readErr.
TargetTable(sh) ==
    LET attrs == IF sh.fault = "badAttr" THEN <<"malformed">> \o IdAttrs(sh.id)
                 ELSE <<"other">> \o IdAttrs(sh.id)
        whole == Table(attrs, RowsFrom(sh.rows, 1, sh.fault))
        tbodyAt == CHOOSE k \in 1..Len(whole) :
                       whole[k].type = "Start" /\ whole[k].name = "tbody"
    IN  IF sh.fault = "readErr"
            THEN InsertAt(whole, IF sh.rows = <<>> THEN tbodyAt ELSE tbodyAt + 7, ErrEv)
            ELSE whole

\* <?xml ...?>, then inside <book>: a table with another id (before), the
\* target table, a table with another id (after).
EventsOf(sh) ==
    <<OtherEv>>
    \o Element("book", <<"other">>,
           (IF sh.before THEN OtherTable ELSE <<>>)
           \o TargetTable(sh)
           \o (IF sh.after THEN OtherTable ELSE <<>>))

\* The most rows of the target table
MaxRows == 2

\* How many times next is called again once it has returned None
MaxEnds == 3

AllDocShapes ==
    {[rows |-> rows, before |-> b, after |-> a, fault |-> f, id |-> id] :
        rows \in SeqsUpTo(RowShapes, MaxRows), b \in BOOLEAN, a \in BOOLEAN,
        f \in Faults, id \in TableIds}

\* A text that cannot be unescaped needs a row to be in. The rows of a table
\* with another id, or without id, are plain rows.
DocShapes ==
    {sh \in AllDocShapes :
        /\ sh.fault = "badText" => sh.rows # <<>>
        /\ sh.id # "id_target" => \A i \in 1..Len(sh.rows) : sh.rows[i] = "plain"}

(***************************************************************************)
(* XmlEntryIterator                                                        *)
(***************************************************************************)

\* self.parser.read_event(&mut self.buf): the next event, Eof at the end
read_event == IF pos < Len(doc) THEN doc[pos + 1] ELSE EofEv

\* A plausible slip: only the key xml:id is compared, not the value.
AnyIdAttribute(attr) == attr \in {"id_target", "id_other"}

\* attr == &Attribute { key: b"xml:id", value: b"table_6-1" }
WantedAttribute(attr) == attr = "id_target"

\* e.attributes().find(|attr| attr.is_err() || attr == xml:id="table_6-1"):
\* "found", "err" or "none"
RECURSIVE FindAttr(_)
FindAttr(attrs) ==
    IF attrs = <<>> THEN "none"
    ELSE IF Head(attrs) = "malformed" THEN "err"
    ELSE IF WantedAttribute(Head(attrs)) THEN "found"
    ELSE FindAttr(Tail(attrs))

\* A plausible slip: the arm of InCellVR goes to InCellObs.
StartTransitionSkipping(st, n) ==
    CASE st = "InTableHead" /\ n = "tbody" -> "InTable"
      [] st = "InTable" /\ n = "para" -> "InCellTag"
      [] st = "InCellTag" /\ n = "para" -> "InCellName"
      [] st = "InCellName" /\ n = "para" -> "InCellKeyword"
      [] st = "InCellKeyword" /\ n = "para" -> "InCellVR"
      [] st = "InCellVR" /\ n = "para" -> "InCellObs"
      [] st = "InCellVM" /\ n = "para" -> "InCellObs"
      [] st = "InCellObs" /\ n = "para" -> "InCellUnknown"
      [] OTHER -> st

\* The arms of match self.state on a Start event, in states other than Off: the
\* state after an element named n has started
StartTransition(st, n) ==
    CASE st = "InTableHead" /\ n = "tbody" -> "InTable"
      [] st = "InTable" /\ n = "para" -> "InCellTag"
      [] st = "InCellTag" /\ n = "para" -> "InCellName"
      [] st = "InCellName" /\ n = "para" -> "InCellKeyword"
      [] st = "InCellKeyword" /\ n = "para" -> "InCellVR"
      [] st = "InCellVR" /\ n = "para" -> "InCellVM"
      [] st = "InCellVM" /\ n = "para" -> "InCellObs"
      [] st = "InCellObs" /\ n = "para" -> "InCellUnknown"
      [] OTHER -> st

\* A plausible slip: the keyword and the VR columns are taken in the other order.
TextFieldSwapped(st) ==
    CASE st = "InCellTag" -> "tag"
      [] st = "InCellName" -> "name"
      [] st = "InCellKeyword" -> "vr"
      [] st = "InCellVR" -> "keyword"
      [] st = "InCellVM" -> "vm"
      [] st = "InCellObs" -> "obs"
      [] OTHER -> "none"

\* The arms of match self.state on a Text event: the field the text is stored
\* in, "none" in the states that drop it
TextField(st) ==
    CASE st = "InCellTag" -> "tag"
      [] st = "InCellName" -> "name"
      [] st = "InCellKeyword" -> "keyword"
      [] st = "InCellVR" -> "vr"
      [] st = "InCellVM" -> "vm"
      [] st = "InCellObs" -> "obs"
      [] OTHER -> "none"

\* the position of the first c in s, 0 when there is none
RECURSIVE IndexOf(_, _, _)
IndexOf(s, c, i) ==
    IF i > Len(s) THEN 0 ELSE IF s[i] = c THEN i ELSE IndexOf(s, c, i + 1)

\* the predefined entities the documents use
Entity(n) ==
    CASE n = <<"a", "m", "p">> -> <<"&">>
      [] n = <<"l", "t">> -> <<"<">>
      [] n = <<"g", "t">> -> <<">">>
      [] OTHER -> <<>>

RECURSIVE unescape(_)
\* BytesText::unescape_and_decode: [ok |-> TRUE, value] or [ok |-> FALSE] when
\* an ampersand starts no known entity
unescape(s) ==
    IF s = <<>> THEN [ok |-> TRUE, value |-> <<>>]
    ELSE IF Head(s) # "&"
        THEN LET rest == unescape(Tail(s))
             IN  IF rest.ok THEN [ok |-> TRUE, value |-> <<Head(s)>> \o rest.value]
                 ELSE rest
    ELSE LET semi == IndexOf(s, ";", 1)
         IN  IF semi = 0 \/ Entity(SubSeq(s, 2, semi - 1)) = <<>>
                 THEN [ok |-> FALSE]
             ELSE LET rest == unescape(SubSeq(s, semi + 1, Len(s)))
                  IN  IF rest.ok
                          THEN [ok |-> TRUE,
                                value |-> Entity(SubSeq(s, 2, semi - 1)) \o rest.value]
                      ELSE rest

IsNotZwsp(c) == c # ZWSP

\* .replace("\u{200b}", "")
replace_zwsp(s) == SelectSeq(s, IsNotZwsp)

\* A plausible slip: the fields after the tag are not taken from the iterator.
EntryOfTagOnly(i) ==
    [tag |-> unwrap(i.tag), name |-> None, alias |-> None, vr |-> None,
     vm |-> None, obs |-> None]

\* A plausible slip: the notes are read, not taken.
TakeAllButObs(i) ==
    [i EXCEPT !.tag = None, !.name = None, !.keyword = None, !.vr = None, !.vm = None]

\* self.tag.take(), self.name.take(), .. self.obs.take(): every scratch field
\* is left None
TakeAll(i) ==
    [i EXCEPT !.tag = None, !.name = None, !.keyword = None, !.vr = None,
              !.vm = None, !.obs = None]

\* A plausible slip: a failed read puts the iterator back to its first state.
ErrResets(i) == [i EXCEPT !.state = "Off"]

\* Err(e) => return Some(Err(e)): nothing of the iterator is assigned
ErrKeeps(i) == i

\* Entry { tag, name, alias, vr, vm, obs } built at the end of a row
EntryOf(i) ==
    [tag |-> unwrap(i.tag), name |-> i.name, alias |-> i.keyword, vr |-> i.vr,
     vm |-> i.vm, obs |-> i.obs]

\* What a call of next returns: Some(Ok(entry)), Some(Err(e)), None
ItemOk(e) == [kind |-> "record", entry |-> e]

ItemErr == [kind |-> "err"]

ItemNone == [kind |-> "none"]

Ends(items) == Len(SelectSeq(items, LAMBDA x : x.kind = "none"))

InitXml ==
    /\ RangeIdle
    /\ RegistryIdle
    /\ EmitIdle
    /\ docShape \in DocShapes
    /\ doc = EventsOf(docShape)
    /\ pos = 0
    /\ it = XmlNew
    /\ yielded = <<>>
    /\ panicked = FALSE

\* Ok(Event::Start(ref e))
StartEvent ==
    /\ ~panicked
    /\ read_event.type = "Start"
    /\ pos' = pos + 1
    /\ LET e == read_event
           found == IF it.state = "Off" /\ e.name = "table"
                        THEN FindAttr(e.attrs) ELSE "none"
       IN  /\ it' = [it EXCEPT
                  !.depth = @ + 1,
                  !.state = IF it.state = "Off"
                                THEN (IF found = "found" THEN "InTableHead" ELSE "Off")
                                ELSE StartTransition(it.state, e.name)]
           /\ yielded' = IF found = "err" THEN Append(yielded, ItemErr) ELSE yielded
    /\ UNCHANGED <<docShape, doc, panicked>>
    /\ UNCHANGED rangeVars
    /\ UNCHANGED registryVars
    /\ UNCHANGED emitVars

\* Ok(Event::End(ref e))
EndEvent ==
    /\ ~panicked
    /\ read_event.type = "End"
    /\ pos' = pos + 1
    /\ LET e == read_event
       IN  IF it.state = "Off"
               THEN /\ it' = [it EXCEPT !.depth = @ - 1]
                    /\ yielded' = yielded
           ELSE IF e.name = "tr" /\ it.tag # None
               THEN /\ it' = [TakeAll(it) EXCEPT !.depth = @ - 1, !.state = "InTable"]
                    /\ yielded' = Append(yielded, ItemOk(EntryOf(it)))
           ELSE IF e.name = "tbody"
               THEN /\ it' = [it EXCEPT !.depth = @ - 1]
                    /\ yielded' = Append(yielded, ItemNone)
           ELSE /\ it' = [it EXCEPT !.depth = @ - 1]
                /\ yielded' = yielded
    /\ UNCHANGED <<docShape, doc, panicked>>
    /\ UNCHANGED rangeVars
    /\ UNCHANGED registryVars
    /\ UNCHANGED emitVars

\* Ok(Event::Text(data))
TextEvent ==
    /\ ~panicked
    /\ read_event.type = "Text"
    /\ pos' = pos + 1
    /\ LET field == TextField(it.state)
           data == unescape(read_event.data)
       IN  IF field = "none"
               THEN UNCHANGED <<it, panicked>>
           ELSE IF ~data.ok
               THEN /\ panicked' = TRUE
                    /\ UNCHANGED it
           ELSE /\ it' = [it EXCEPT ![field] = Some(replace_zwsp(data.value))]
                /\ UNCHANGED panicked
    /\ UNCHANGED <<docShape, doc, yielded>>
    /\ UNCHANGED rangeVars
    /\ UNCHANGED registryVars
    /\ UNCHANGED emitVars

\* Ok(Event::Eof { .. }): next returns None; the Reader is left at the end.
EofEvent ==
    /\ ~panicked
    /\ read_event.type = "Eof"
    /\ Ends(yielded) < MaxEnds
    /\ yielded' = Append(yielded, ItemNone)
    /\ UNCHANGED <<docShape, doc, pos, it, panicked>>
    /\ UNCHANGED rangeVars
    /\ UNCHANGED registryVars
    /\ UNCHANGED emitVars

\* Ok(_)
OtherEvent ==
    /\ ~panicked
    /\ read_event.type = "Other"
    /\ pos' = pos + 1
    /\ UNCHANGED <<docShape, doc, it, yielded, panicked>>
    /\ UNCHANGED rangeVars
    /\ UNCHANGED registryVars
    /\ UNCHANGED emitVars

\* Err(e): next returns Some(Err(e))
ErrEvent ==
    /\ ~panicked
    /\ read_event.type = "Err"
    /\ pos' = pos + 1
    /\ yielded' = Append(yielded, ItemErr)
    /\ it' = ErrKeeps(it)
    /\ UNCHANGED <<docShape, doc, panicked>>
    /\ UNCHANGED rangeVars
    /\ UNCHANGED registryVars
    /\ UNCHANGED emitVars

\* One turn of the loop of XmlEntryIterator::next; a turn that returns ends the
\* call, and the turn after it is the first of the next call.
NextXml ==
    \/ StartEvent
    \/ EndEvent
    \/ TextEvent
    \/ EofEvent
    \/ OtherEvent
    \/ ErrEvent

SpecXml == InitXml /\ [][NextXml]_vars

(***************************************************************************)
(* Emission: main, to_code_file and to_json_file                           *)
(***************************************************************************)

\* struct Entry { tag, name, alias, vr, vm, obs }
Entry(tag, name, alias, vr, vm, obs) ==
    [tag |-> tag, name |-> name, alias |-> alias, vr |-> vr, vm |-> vm, obs |-> obs]

\* The texts the code compares with
RET == <<"R", "E", "T">>

SeeNote == <<"S", "e", "e", " ", "N", "o", "t", "e">>

\* The records handed to the emission: an attribute, the same tag without keyword, a retired
\* attribute, a repeating group, a retired range of elements, a tag with xx in
\* both fields, a tag without parentheses, a tag without its closing
\* parenthesis, a tag with a field of three digits, an attribute without VR,
\* an attribute whose VR is See Note and that has a note.
EmitPool ==
    {Entry(<<"(", "0", "0", "2", "8", ",", "0", "0", "1", "0", ")">>, Some(<<"R", "o", "w", "s">>), Some(<<"R", "o", "w", "s">>), Some(<<"U", "S">>), Some(<<"1">>), None),
     Entry(<<"(", "0", "0", "2", "8", ",", "0", "0", "1", "0", ")">>, Some(<<"R", "o", "w", "s">>), None, None, None, None),
     Entry(<<"(", "0", "0", "0", "8", ",", "0", "0", "0", "1", ")">>, Some(<<"L", "e", "n", "g", "t", "h">>), Some(<<"L", "e", "n">>), Some(<<"U", "L">>), Some(<<"1">>), Some(RET)),
     Entry(<<"(", "6", "0", "x", "x", ",", "3", "0", "0", "0", ")">>, Some(<<"O", "v", "e", "r", "l", "a", "y">>), Some(<<"D", "a", "t", "a">>), Some(<<"O", "B", " ", "o", "r", " ", "O", "W">>), Some(<<"1">>), None),
     Entry(<<"(", "0", "0", "2", "0", ",", "3", "1", "x", "x", ")">>, Some(<<"S", "o", "u", "r", "c", "e">>), Some(<<"I", "D", "s">>), Some(<<"C", "S">>), Some(<<"1">>), Some(RET)),
     Entry(<<"(", "6", "0", "x", "x", ",", "3", "0", "x", "x", ")">>, Some(<<"B", "o", "t", "h">>), Some(<<"B", "o", "t", "h">>), Some(<<"U", "S">>), Some(<<"1">>), None),
     Entry(<<"0", "0", "2", "8", ",", "0", "0", "1", "0">>, Some(<<"R", "o", "w", "s">>), Some(<<"B", "a", "r", "e">>), Some(<<"U", "S">>), Some(<<"1">>), None),
     Entry(<<"(", "0", "0", "2", "8", ",", "0", "0", "1", "0">>, Some(<<"R", "o", "w", "s">>), Some(<<"O", "p", "e", "n">>), Some(<<"U", "S">>), Some(<<"1">>), Some(RET)),
     Entry(<<"(", "0", "2", "8", ",", "0", "0", "1", "0", ")">>, Some(<<"R", "o", "w", "s">>), Some(<<"T", "h", "r", "e", "e">>), None, Some(<<"1">>), None),
     Entry(<<"(", "0", "0", "2", "8", ",", "0", "0", "1", "1", ")">>, Some(<<"C", "o", "l", "u", "m", "n", "s">>), Some(<<"C", "o", "l", "s">>), None, Some(<<"1">>), None),
     Entry(<<"(", "F", "F", "F", "E", ",", "E", "0", "0", "0", ")">>, Some(<<"I", "t", "e", "m">>), Some(<<"I", "t", "e", "m">>), Some(SeeNote), Some(<<"1">>), Some(<<"D", "I", "C", "O", "S">>))}

\* The most records handed to the emission
MaxRecords == 3

\* FORMAT, no-retired, and whether FROM starts with http: or https:
Configs ==
    {[format |-> f, no_retired |-> n, url |-> u] :
        f \in {"rs", "json"}, n \in BOOLEAN, u \in BOOLEAN}

\* The third argument main gives to_code_file: !ignore_retired for a URL, true
\* for a file
include_retired(cfg) == IF cfg.url THEN ~cfg.no_retired ELSE TRUE

\* [0-9A-F]{4} matches the whole of s
FourHex(s) ==
    /\ Len(s) = 4
    /\ \A i \in 1..4 :
          s[i] \in {"0", "1", "2", "3", "4", "5", "6", "7", "8", "9",
                    "A", "B", "C", "D", "E", "F"}

\* A plausible slip: the parentheses are optional in the pattern,
\* ^\(?([0-9A-F]{4}),([0-9A-F]{4})\)?$
regex_tag_lenient(tag) ==
    LET a == IF tag # <<>> /\ Head(tag) = "(" THEN Tail(tag) ELSE tag
        b == IF a # <<>> /\ a[Len(a)] = ")" THEN SubSeq(a, 1, Len(a) - 1) ELSE a
    IN  IF Len(b) = 9 /\ b[5] = "," /\ FourHex(SubSeq(b, 1, 4)) /\ FourHex(SubSeq(b, 6, 9))
            THEN Some(<<SubSeq(b, 1, 4), SubSeq(b, 6, 9)>>)
            ELSE None

\* regex_tag.captures(tag) for ^\(([0-9A-F]{4}),([0-9A-F]{4})\)$: Some of the
\* two capture groups, or None
regex_tag(tag) ==
    IF /\ Len(tag) = 11
       /\ tag[1] = "(" /\ tag[6] = "," /\ tag[11] = ")"
       /\ FourHex(SubSeq(tag, 2, 5))
       /\ FourHex(SubSeq(tag, 7, 10))
        THEN Some(<<SubSeq(tag, 2, 5), SubSeq(tag, 7, 10)>>)
        ELSE None

\* str::split_at(mid) on ASCII text: the two parts, or a panic when mid is
\* past the end
split_at(str, mid) ==
    IF mid > Len(str) THEN [ok |-> FALSE]
    ELSE [ok |-> TRUE, left |-> SubSeq(str, 1, mid), right |-> SubSeq(str, mid + 1, Len(str))]

\* vr.unwrap_or_else(|| "".into()), then "UN See Note" in place of "See Note"
NormalizedVr(vr) ==
    LET v == IF vr = None THEN <<>> ELSE unwrap(vr)
    IN  IF v = SeeNote THEN <<"U", "N", " ", "S", "e", "e", " ", "N", "o", "t", "e">> ELSE v

\* format!(" /*{} */", vr2), or vr2 when it is empty
SecondVr(vr2) ==
    IF vr2 # <<>> THEN <<" ", "/", "*">> \o vr2 \o <<" ", "*", "/">> ELSE vr2

\* obs.unwrap_or_else(String::new), then format!(" // {}", obs) unless empty
ObsComment(obs) ==
    LET o == IF obs = None THEN <<>> ELSE unwrap(obs)
    IN  IF o # <<>> THEN <<" ", "/", "/", " ">> \o o ELSE o

\* The lines of the generated table: the header, one line of the writeln!
\*   E { tag: Single(0x{}, 0x{}), alias: "{}", vr: {}{} },{}
\* with its six arguments, and the closing line.
HeaderLine == [kind |-> "header"]

EntryLine(group, elem, alias, vr1, second_vr, obs) ==
    [kind |-> "entry", variant |-> "Single", group |-> group, elem |-> elem,
     alias |-> alias, vr |-> vr1, second_vr |-> second_vr, obs |-> obs]

FooterLine == [kind |-> "footer"]

\* One turn of the loop of to_code_file on the record e: "continue", "panic"
\* or "line" with the line written
CodeTurn(e, retired_included) ==
    IF e.alias = None THEN [kind |-> "continue"]
    ELSE IF e.obs = Some(RET) /\ ~retired_included THEN [kind |-> "continue"]
    ELSE IF regex_tag(e.tag) = None THEN [kind |-> "continue"]
    ELSE LET cap == unwrap(regex_tag(e.tag))
             parts == split_at(NormalizedVr(e.vr), 2)
         IN  IF ~parts.ok THEN [kind |-> "panic"]
             ELSE [kind |-> "line",
                   line |-> EntryLine(cap[1], cap[2], unwrap(e.alias), parts.left,
                                      SecondVr(parts.right), ObsComment(e.obs))]

\* The byte of a character of a tag text
ByteOf(c) ==
    CASE c = "(" -> 40 [] c = ")" -> 41 [] c = "," -> 44
      [] c = "0" -> 48 [] c = "1" -> 49 [] c = "2" -> 50 [] c = "3" -> 51
      [] c = "4" -> 52 [] c = "5" -> 53 [] c = "6" -> 54 [] c = "7" -> 55
      [] c = "8" -> 56 [] c = "9" -> 57
      [] c = "A" -> 65 [] c = "B" -> 66 [] c = "C" -> 67 [] c = "D" -> 68
      [] c = "E" -> 69 [] c = "F" -> 70 [] c = "x" -> 120

RECURSIVE StrLess(_, _)
\* Ord for String: the order of the bytes, a prefix before what it is a prefix of
StrLess(a, b) ==
    IF b = <<>> THEN FALSE
    ELSE IF a = <<>> THEN TRUE
    ELSE IF ByteOf(Head(a)) # ByteOf(Head(b)) THEN ByteOf(Head(a)) < ByteOf(Head(b))
    ELSE StrLess(Tail(a), Tail(b))

RECURSIVE InOrder(_)
\* BTreeMap::iter: the keys from the least to the greatest
InOrder(keys) ==
    IF keys = {} THEN <<>>
    ELSE LET least == CHOOSE k \in keys : \A o \in keys \ {k} : StrLess(k, o)
         IN  <<least>> \o InOrder(keys \ {least})

\* The insertion collect() makes into the BTreeMap: the value replaces the one
\* the key had
BTreeInsert(map, k, v) == insert(map, k, v)

\* #[derive(Serialize)] for Entry: obs is left out when it is None
Serialize(e) ==
    IF e.obs = None
        THEN [tag |-> e.tag, name |-> e.name, alias |-> e.alias, vr |-> e.vr, vm |-> e.vm]
        ELSE [tag |-> e.tag, name |-> e.name, alias |-> e.alias, vr |-> e.vr, vm |-> e.vm,
              obs |-> unwrap(e.obs)]

\* to_writer(f, &entries): the pairs of key and value in the order of the keys
to_writer(map) ==
    LET keys == InOrder(DOMAIN map)
    IN  [i \in 1..Len(keys) |-> [key |-> keys[i], value |-> Serialize(map[keys[i]])]]

InitEmit ==
    /\ RangeIdle
    /\ RegistryIdle
    /\ XmlIdle
    /\ config \in Configs
    /\ xml_entries \in SeqsUpTo(EmitPool, MaxRecords)
    /\ epos = 0
    /\ epc = "main"
    /\ codeFile = <<>>
    /\ btree = EmptyMap
    /\ jsonFile = <<>>

\* main: match format
main ==
    /\ epc = "main"
    /\ epc' = IF config.format = "rs" THEN "to_code_file" ELSE "to_json_file"
    /\ UNCHANGED <<config, xml_entries, epos, codeFile, btree, jsonFile>>
    /\ UNCHANGED rangeVars
    /\ UNCHANGED registryVars
    /\ UNCHANGED xmlVars

\* to_code_file up to its loop: the file is created and the header written
CodeBegin ==
    /\ epc = "to_code_file"
    /\ codeFile' = <<HeaderLine>>
    /\ epc' = "for"
    /\ UNCHANGED <<config, xml_entries, epos, btree, jsonFile>>
    /\ UNCHANGED rangeVars
    /\ UNCHANGED registryVars
    /\ UNCHANGED xmlVars

\* for e in entries { .. }: one turn
CodeEntry ==
    /\ epc = "for"
    /\ epos < Len(xml_entries)
    /\ epos' = epos + 1
    /\ LET turn == CodeTurn(xml_entries[epos + 1], include_retired(config))
       IN  /\ codeFile' = IF turn.kind = "line" THEN Append(codeFile, turn.line)
                          ELSE codeFile
           /\ epc' = IF turn.kind = "panic" THEN "panicked" ELSE "for"
    /\ UNCHANGED <<config, xml_entries, btree, jsonFile>>
    /\ UNCHANGED rangeVars
    /\ UNCHANGED registryVars
    /\ UNCHANGED xmlVars

\* f.write_all(b"];\n")?; Ok(())
CodeEnd ==
    /\ epc = "for"
    /\ epos = Len(xml_entries)
    /\ codeFile' = Append(codeFile, FooterLine)
    /\ epc' = "done"
    /\ UNCHANGED <<config, xml_entries, epos, btree, jsonFile>>
    /\ UNCHANGED rangeVars
    /\ UNCHANGED registryVars
    /\ UNCHANGED xmlVars

\* entries.into_iter().map(|v| (v.tag.clone(), v)).collect(): one record
JsonCollect ==
    /\ epc = "to_json_file"
    /\ epos < Len(xml_entries)
    /\ epos' = epos + 1
    /\ btree' = BTreeInsert(btree, xml_entries[epos + 1].tag, xml_entries[epos + 1])
    /\ UNCHANGED <<config, xml_entries, epc, codeFile, jsonFile>>
    /\ UNCHANGED rangeVars
    /\ UNCHANGED registryVars
    /\ UNCHANGED xmlVars

\* to_writer(f, &entries)?; Ok(())
JsonWrite ==
    /\ epc = "to_json_file"
    /\ epos = Len(xml_entries)
    /\ jsonFile' = to_writer(btree)
    /\ epc' = "done"
    /\ UNCHANGED <<config, xml_entries, epos, codeFile, btree>>
    /\ UNCHANGED rangeVars
    /\ UNCHANGED registryVars
    /\ UNCHANGED xmlVars

NextEmit ==
    \/ main
    \/ CodeBegin
    \/ CodeEntry
    \/ CodeEnd
    \/ JsonCollect
    \/ JsonWrite

SpecEmit == InitEmit /\ [][NextEmit]_vars

(***************************************************************************)
(* SpecContains: TagRange::contains on a range and a tag                   *)
(***************************************************************************)

InitContains ==
    /\ RegistryIdle
    /\ XmlIdle
    /\ EmitIdle
    /\ range \in SampleRanges
    /\ queryTag \in SampleTags
    /\ containsRes = None
    /\ ParseIdle

\* let r = range.contains(tag)
Contains ==
    /\ containsRes = None
    /\ containsRes' = Some(contains(range, queryTag))
    /\ UNCHANGED <<range, queryTag, inputShape, input, parsed>>
    /\ UNCHANGED registryVars
    /\ UNCHANGED xmlVars
    /\ UNCHANGED emitVars

NextContains == Contains

SpecContains == InitContains /\ [][NextContains]_vars

(***************************************************************************)
(* SpecParse: str::parse::<TagRange> on a text                             *)
(***************************************************************************)

InitParse ==
    /\ RegistryIdle
    /\ XmlIdle
    /\ EmitIdle
    /\ range = NoRange
    /\ queryTag = NoTag
    /\ containsRes = None
    /\ inputShape \in InputShapes
    /\ input = TextOf(inputShape)
    /\ parsed = None

\* let r = input.parse::<TagRange>()
Parse ==
    /\ parsed = None
    /\ input # <<>>
    /\ parsed' = Some(from_str(input))
    /\ UNCHANGED <<range, queryTag, containsRes, inputShape, input>>
    /\ UNCHANGED registryVars
    /\ UNCHANGED xmlVars
    /\ UNCHANGED emitVars

NextParse == Parse

SpecParse == InitParse /\ [][NextParse]_vars


(***************************************************************************)
(* SpecRoundTrip: a TagRange is rendered in the textual grammar and the    *)
(* text is parsed                                                          *)
(***************************************************************************)

HexDigitChar(n) ==
    CASE n = 0 -> "0" [] n = 1 -> "1" [] n = 2 -> "2" [] n = 3 -> "3"
      [] n = 4 -> "4" [] n = 5 -> "5" [] n = 6 -> "6" [] n = 7 -> "7"
      [] n = 8 -> "8" [] n = 9 -> "9" [] n = 10 -> "A" [] n = 11 -> "B"
      [] n = 12 -> "C" [] n = 13 -> "D" [] n = 14 -> "E" [] n = 15 -> "F"

\* a 16-bit value as four hex digits
Hex4(v) ==
    << HexDigitChar(v \div 4096), HexDigitChar((v \div 256) % 16),
       HexDigitChar((v \div 16) % 16), HexDigitChar(v % 16) >>

\* the wildcard field: the two digits of the high byte, then xx
Hex2xx(v) == SubSeq(Hex4(v), 1, 2) \o <<"x", "x">>

\* The textual grammar of a range: GGGG,EEEE with xx in the wildcard field,
\* with or without the enclosing parentheses.
format(r, bracketed) ==
    LET g == IF r.kind = "Group100" THEN Hex2xx(r.inner.group) ELSE Hex4(r.inner.group)
        e == IF r.kind = "Element100" THEN Hex2xx(r.inner.element)
             ELSE Hex4(r.inner.element)
        body == g \o <<",">> \o e
    IN  IF bracketed THEN <<"(">> \o body \o <<")">> ELSE body

InitRoundTrip ==
    /\ RegistryIdle
    /\ XmlIdle
    /\ EmitIdle
    /\ range \in SampleRanges
    /\ queryTag = NoTag
    /\ containsRes = None
    /\ ParseIdle

\* let text = render(range)
Render ==
    /\ input = <<>>
    /\ \E bracketed \in BOOLEAN : input' = format(range, bracketed)
    /\ UNCHANGED <<range, queryTag, containsRes, inputShape, parsed>>
    /\ UNCHANGED registryVars
    /\ UNCHANGED xmlVars
    /\ UNCHANGED emitVars

NextRoundTrip == Render \/ Parse

SpecRoundTrip == InitRoundTrip /\ [][NextRoundTrip]_vars

(***************************************************************************)
(* Claims on TagRange::contains and on parsing                             *)
(***************************************************************************)

\* Two 16-bit values lie in the same block of 256: they differ at most in
\* their low byte.
SameHighByte(a, b) ==
    \E hi \in 0..255 :
        /\ a \in (hi * 256)..(hi * 256 + 255)
        /\ b \in (hi * 256)..(hi * 256 + 255)

ClaimContains(r, t) ==
    \/ r.kind = "Single" /\ r.inner = t
    \/ /\ r.kind = "Group100"
       /\ SameHighByte(r.inner.group, t.group)
       /\ r.inner.element = t.element
    \/ /\ r.kind = "Element100"
       /\ r.inner.group = t.group
       /\ SameHighByte(r.inner.element, t.element)

\* C1: r.contains(t) is true exactly when r is Single(i) and i = t, or r is
\* Group100(i), i and t have the same element and groups with the same high
\* byte, or r is Element100(i), i and t have the same group and elements with
\* the same high byte.
C1_ContainsExactly ==
    containsRes # None => (unwrap(containsRes) <=> ClaimContains(range, queryTag))

\* A group wildcard contains a tag whose group differs from its own in the low
\* byte.
C1_Witness ==
    /\ containsRes = Some(TRUE)
    /\ range.kind = "Group100"
    /\ range.inner.group # queryTag.group

UpperHex ==
    <<"0", "1", "2", "3", "4", "5", "6", "7", "8", "9", "A", "B", "C", "D", "E", "F">>

LowerHex ==
    <<"0", "1", "2", "3", "4", "5", "6", "7", "8", "9", "a", "b", "c", "d", "e", "f">>

IsHexChar(c) == \E i \in 1..16 : UpperHex[i] = c \/ LowerHex[i] = c

HexCharValue(c) == (CHOOSE i \in 1..16 : UpperHex[i] = c \/ LowerHex[i] = c) - 1

RECURSIVE Pow16(_)
Pow16(n) == IF n = 0 THEN 1 ELSE 16 * Pow16(n - 1)

RECURSIVE HexNumberFrom(_, _)
\* the number written by the hex digits f[i], ..., f[Len(f)]
HexNumberFrom(f, i) ==
    IF i > Len(f) THEN 0
    ELSE HexCharValue(f[i]) * Pow16(Len(f) - i) + HexNumberFrom(f, i + 1)

HexNumber(f) == HexNumberFrom(f, 1)

\* The fields that splitting the text gives: an unmatched parenthesis stays in
\* the field it touches.
FieldGroup(sh) ==
    (IF sh.paren = "open" THEN <<"(">> ELSE <<>>)
    \o sh.group
    \o (IF sh.paren = "close" /\ sh.comps = 1 THEN <<")">> ELSE <<>>)

FieldElem(sh) ==
    sh.elem \o (IF sh.paren = "close" /\ sh.comps = 2 THEN <<")">> ELSE <<>>)

EndsInXX(f) == Len(f) >= 2 /\ f[Len(f) - 1] = "x" /\ f[Len(f)] = "x"

\* The numeric portion of a 4-character field: all of it, or its first two
\* characters when it ends in xx.
NumericPortion(f) == IF EndsInXX(f) THEN SubSeq(f, 1, 2) ELSE f

AllHex(f) == \A i \in 1..Len(f) : IsHexChar(f[i])

TwoFieldsOfFour(sh) ==
    sh.comps = 2 /\ Len(FieldGroup(sh)) = 4 /\ Len(FieldElem(sh)) = 4

\* The inputs C2 is about.
WellFormed(sh) ==
    /\ TwoFieldsOfFour(sh)
    /\ sh.paren \in {"none", "both"}
    /\ AllHex(NumericPortion(sh.group))
    /\ AllHex(NumericPortion(sh.elem))
    /\ ~(EndsInXX(sh.group) /\ EndsInXX(sh.elem))

ClaimParsed(sh) ==
    IF EndsInXX(sh.group)
        THEN Group100(Tag(HexNumber(SubSeq(sh.group, 1, 2)) * 256, HexNumber(sh.elem)))
    ELSE IF EndsInXX(sh.elem)
        THEN Element100(Tag(HexNumber(sh.group), HexNumber(SubSeq(sh.elem, 1, 2)) * 256))
    ELSE Single(Tag(HexNumber(sh.group), HexNumber(sh.elem)))

OtherParen(sh) ==
    [sh EXCEPT !.paren = IF sh.paren = "both" THEN "none" ELSE "both"]

\* C2: a text of two 4-character fields of hex digits (xx allowed at the end of
\* one of them), bracketed or not, parses to Single, Group100 (group = first two
\* digits << 8) or Element100 (element = first two digits << 8) with the numbers
\* the fields write, and the bracketed and unbracketed forms parse alike.
C2_ParseWellFormed ==
    (parsed # None /\ WellFormed(inputShape)) =>
        /\ unwrap(parsed) = Ok(ClaimParsed(inputShape))
        /\ unwrap(parsed) = from_str(TextOf(OtherParen(inputShape)))

\* A bracketed text with a group wildcard has been parsed.
C2_Witness ==
    /\ parsed # None
    /\ WellFormed(inputShape)
    /\ inputShape.paren = "both"
    /\ EndsInXX(inputShape.group)
    /\ unwrap(parsed).ok
    /\ unwrap(parsed).value.kind = "Group100"

LengthErrors == {ErrGroupLen, ErrElementLen}

DigitErrors == {ErrGroup, ErrElement}

\* C3: parse fails when a field is not 4 characters long and when both fields
\* end in xx; a wrong length, the both-wildcard combination and a bad digit are
\* reported by different errors.
C3_LengthAndBothWildcard ==
    (parsed # None /\ inputShape.comps >= 2) =>
        LET g == FieldGroup(inputShape)
            e == FieldElem(inputShape)
            r == unwrap(parsed)
        IN  /\ (Len(g) # 4 \/ Len(e) # 4) => (~r.ok /\ r.err \in LengthErrors)
            /\ (EndsInXX(g) /\ EndsInXX(e)) => ~r.ok
            /\ (Len(g) = 4 /\ Len(e) = 4 /\ EndsInXX(g) /\ EndsInXX(e))
                    => r.err = ErrUnsupported
            /\ (~r.ok /\ Len(g) = 4 /\ Len(e) = 4 /\ ~(EndsInXX(g) /\ EndsInXX(e)))
                    => r.err \in DigitErrors
            /\ ErrUnsupported \notin LengthErrors \cup DigitErrors
            /\ LengthErrors \cap DigitErrors = {}

\* Both fields of four characters end in xx and the parse has failed.
C3_Witness ==
    /\ parsed # None
    /\ TwoFieldsOfFour(inputShape)
    /\ EndsInXX(inputShape.group) /\ EndsInXX(inputShape.elem)
    /\ unwrap(parsed) = Err(ErrUnsupported)

\* C4: parse accepts a text only when splitting it on commas gives exactly two
\* fields.
C4_ExactlyTwoComponents ==
    (parsed # None /\ unwrap(parsed).ok) => inputShape.comps = 2

\* C5: a text of two 4-character fields whose numeric portion holds a character
\* that is no hexadecimal digit is rejected.
C5_NonHexRejected ==
    ( /\ parsed # None
      /\ TwoFieldsOfFour(inputShape)
      /\ \/ ~AllHex(NumericPortion(FieldGroup(inputShape)))
         \/ ~AllHex(NumericPortion(FieldElem(inputShape))) )
    => ~unwrap(parsed).ok


\* C6 as stated: every TagRange, with any placeholder low byte, is given back by
\* parsing its rendering.
C6_RoundTripEveryRange ==
    parsed # None => unwrap(parsed) = Ok(range)

\* The placeholder byte of a wildcard range is zero, as in every parsed range.
PlaceholderZero(r) ==
    CASE r.kind = "Single" -> TRUE
      [] r.kind = "Group100" -> r.inner.group % 256 = 0
      [] r.kind = "Element100" -> r.inner.element % 256 = 0

\* C6, amended: every Single range, and every wildcard range whose placeholder
\* low byte is zero, is given back by parsing its rendering.
C6_RoundTripPlaceholderZero ==
    (parsed # None /\ PlaceholderZero(range)) => unwrap(parsed) = Ok(range)

\* A wildcard range with a non-zero high byte has been rendered and parsed back.
C6_Witness ==
    /\ parsed = Some(Ok(range))
    /\ range.kind = "Element100"
    /\ range.inner.element > 255
    /\ Head(input) = "("


(***************************************************************************)
(* Claims on the registry                                                  *)
(***************************************************************************)

Largest(S) == CHOOSE x \in S : \A y \in S : y <= x

\* The reference to the last entry of the list with this alias, if any
LastByAlias(all, a) ==
    LET at == {i \in 1..Len(all) : all[i].alias = a}
    IN  IF at = {} THEN None ELSE Some(Largest(at))

\* The reference to the last entry of the list with this inner tag, if any
LastByTag(all, t) ==
    LET at == {i \in 1..Len(all) : all[i].tag.inner = t}
    IN  IF at = {} THEN None ELSE Some(Largest(at))

AliasesOf(all) == {all[i].alias : i \in 1..Len(all)}

TagsOf(all) == {all[i].tag.inner : i \in 1..Len(all)}

\* C7: once the registry is built from ENTRIES followed by META_ENTRIES, by_name
\* gives the last entry of the list with the alias and by_tag the last entry
\* with the inner tag, absent when there is none; so a metadata entry wins over
\* a standard one, and every entry's alias and tag resolve.
C7_LastEntryWins ==
    DICT # None =>
        LET all == AllEntries(ENTRIES)
            reg == unwrap(DICT)
        IN  /\ \A a \in AliasesOf(all) \cup QueryNames :
                  get(reg.by_name, a) = LastByAlias(all, a)
            /\ \A t \in TagsOf(all) \cup QueryTags :
                  get(reg.by_tag, t) = LastByTag(all, t)
            /\ \A a \in AliasesOf(all) : get(reg.by_name, a) # None
            /\ \A t \in TagsOf(all) : get(reg.by_tag, t) # None
            /\ \A th \in Threads :
                  (lookups[th] # None /\ unwrap(lookups[th]).op = "by_name") =>
                      unwrap(lookups[th]).result
                          = LastByAlias(all, unwrap(lookups[th]).name)
            /\ \A th \in Threads :
                  (lookups[th] # None /\ unwrap(lookups[th]).op = "by_tag") =>
                      unwrap(lookups[th]).result
                          = LastByTag(all, unwrap(lookups[th]).tag)

\* The generated table has an entry with the alias and the tag of a metadata
\* entry, and a lookup of that alias has returned the metadata entry.
C7_Witness ==
    /\ \E i \in 1..Len(ENTRIES) : ENTRIES[i].alias = "TransferSyntaxUID"
    /\ \E th \in Threads :
          /\ lookups[th] # None
          /\ unwrap(lookups[th]).op = "by_name"
          /\ unwrap(lookups[th]).name = "TransferSyntaxUID"
          /\ unwrap(lookups[th]).result = Some(Len(ENTRIES) + 5)

\* C8: init_dictionary runs exactly once: the first access starts it and no
\* later access, racing or not, starts it again.
C8_InitOnce ==
    /\ initRuns <= 1
    /\ (\E t \in Threads : tpc[t] # "start") => initRuns = 1

\* Two threads race: one runs init_dictionary, the other has arrived meanwhile.
C8_Witness ==
    \E t1, t2 \in Threads :
        /\ tpc[t1] = "init" /\ cursor[t1] > 0
        /\ tpc[t2] = "wait"
        /\ initRuns = 1

\* Every entry of the list is in both maps.
FullyBuilt(reg, all) ==
    \A i \in 1..Len(all) :
        /\ all[i].alias \in DOMAIN reg.by_name
        /\ all[i].tag.inner \in DOMAIN reg.by_tag

AnsweredFromFullIndex ==
    /\ \A t \in Threads :
          tpc[t] = "read" => (DICT # None /\ FullyBuilt(unwrap(DICT), AllEntries(ENTRIES)))
    /\ \A t \in Threads :
          lookups[t] # None =>
              /\ unwrap(lookups[t]).from # None
              /\ FullyBuilt(unwrap(unwrap(lookups[t]).from), AllEntries(ENTRIES))
    /\ DICT # None => FullyBuilt(unwrap(DICT), AllEntries(ENTRIES))
    /\ \A t \in Threads : tpc[t] \in {"read", "done"} => once = "COMPLETE"
    /\ \A t \in Threads : tpc[t] \in {"start", "wait", "init"} => lookups[t] = None

\* C9: every lookup is answered from the completely built index; a caller that
\* arrives during the construction waits; once the construction is complete no
\* step changes the index.
C9_BuiltOnceThenFrozen ==
    /\ []AnsweredFromFullIndex
    /\ [][once = "COMPLETE" => DICT' = DICT]_vars

\* A thread has been answered while another, which arrived during the
\* construction, has not yet gone on.
C9_Witness ==
    \E t1, t2 \in Threads :
        /\ tpc[t1] = "done" /\ lookups[t1] # None
        /\ tpc[t2] = "wait"
        /\ once = "COMPLETE"


(***************************************************************************)
(* Claims on the extraction pipeline                                       *)
(***************************************************************************)

\* The sequence the pipeline yields: what next returned before its first None.
FirstEnd(items) == IndexOf([i \in 1..Len(items) |-> items[i].kind], "none", 1)

Ended == FirstEnd(yielded) # 0

Produced ==
    IF Ended THEN SubSeq(yielded, 1, FirstEnd(yielded) - 1) ELSE yielded

\* The text of a cell as the document has it: the character data, its entity
\* written as the character it stands for.
CellText(row, col, shape) ==
    LET r == ToString(row)
        c == ToString(col)
    IN  CASE shape = "marked" /\ col = 1 -> <<"r", r, ZWSP, "c", c>>
          [] shape = "marked" /\ col = 2 -> <<Space, "r", r, "c", c, Space>>
          [] shape = "marked" /\ col = 3 -> <<"r", r, "&", "c", c>>
          [] shape = "marked" /\ col = 4 -> <<ZWSP>>
          [] shape = "marked" /\ col = 6 -> <<"R", "E", "T", ZWSP>>
          [] OTHER -> <<"r", r, "c", c>>

\* The same text without the white space around it and without zero width
\* spaces.
CellTextCleaned(row, col, shape) ==
    CASE shape = "marked" /\ col = 3 -> <<"r", ToString(row), "&", "c", ToString(col)>>
      [] shape = "marked" /\ col = 4 -> <<>>
      [] shape = "marked" /\ col = 6 -> <<"R", "E", "T">>
      [] OTHER -> <<"r", ToString(row), "c", ToString(col)>>

RecordOfTexts(t) ==
    [tag |-> t[1], name |-> Some(t[2]), alias |-> Some(t[3]), vr |-> Some(t[4]),
     vm |-> Some(t[5]), obs |-> Some(t[6])]

\* The documents C10 is about: a table with the wanted id, no failure, a
\* header, n rows of six cells with text; tables with other ids may come before
\* and after.
SixCellRows(sh) ==
    /\ sh.id = "id_target"
    /\ sh.fault = "none"
    /\ \A i \in 1..Len(sh.rows) : sh.rows[i] \in {"plain", "emph", "marked"}

\* C10 as stated: the pipeline yields exactly one record per row, in row order,
\* whose six fields are the texts of the six cells of the row.
C10_RecordsAreCellTexts ==
    SixCellRows(docShape) =>
        /\ Len(Produced) <= Len(docShape.rows)
        /\ Ended => Len(Produced) = Len(docShape.rows)
        /\ \A i \in 1..Len(Produced) :
              Produced[i] = ItemOk(RecordOfTexts(
                  [col \in 1..6 |-> CellText(i, col, docShape.rows[i])]))

\* C10, amended: the pipeline yields exactly one record per row, in row order,
\* whose six fields are the texts of the six cells of the row as the reader
\* delivers them (entities unescaped, surrounding white space trimmed) with the
\* zero width spaces removed.
C10_RecordsAreCleanedCellTexts ==
    SixCellRows(docShape) =>
        /\ Len(Produced) <= Len(docShape.rows)
        /\ Ended => Len(Produced) = Len(docShape.rows)
        /\ \A i \in 1..Len(Produced) :
              Produced[i] = ItemOk(RecordOfTexts(
                  [col \in 1..6 |-> CellTextCleaned(i, col, docShape.rows[i])]))

\* The table body of two rows, the second with marked texts, has been read to
\* its end and two records have been yielded.
C10_Witness ==
    /\ SixCellRows(docShape)
    /\ Len(docShape.rows) = 2
    /\ docShape.rows[2] = "marked"
    /\ docShape.before
    /\ Ended
    /\ Len(Produced) = 2


\* The six scratch fields of the iterator
Scratch(i) == <<i.tag, i.name, i.keyword, i.vr, i.vm, i.obs>>

NoScratch == <<None, None, None, None, None, None>>

\* The records among what next has returned
Records(items) == SelectSeq(items, LAMBDA x : x.kind = "record")

\* An element-start event named table whose attributes include the wanted id
TargetTableStart(e) ==
    /\ e.type = "Start"
    /\ e.name = "table"
    /\ \E k \in 1..Len(e.attrs) : e.attrs[k] = "id_target"

\* C11: the state leaves Off only on the start of a table whose attributes
\* include the wanted id; on every other event read in the state Off the state
\* stays Off, no scratch field is written and no record is emitted; a document
\* whose tables all have another id, or none, yields no record.
C11_OffUntilTargetTable ==
    /\ [](it.state = "Off" => (Scratch(it) = NoScratch /\ Records(yielded) = <<>>))
    /\ [](docShape.id # "id_target" => (it.state = "Off" /\ Records(yielded) = <<>>))
    /\ [][(it.state = "Off" /\ it'.state # "Off") => TargetTableStart(read_event)]_vars
    /\ [][(it.state = "Off" /\ ~TargetTableStart(read_event)) =>
              /\ it'.state = "Off"
              /\ Scratch(it') = NoScratch
              /\ Records(yielded') = <<>>]_vars

\* A document with two tables, both with another id and both with rows, has
\* been read to its end: the state is Off and nothing but the end was yielded.
C11_Witness ==
    /\ docShape.id = "id_other"
    /\ docShape.before
    /\ docShape.rows # <<>>
    /\ docShape.fault = "none"
    /\ pos = Len(doc)
    /\ it.state = "Off"
    /\ yielded = <<ItemNone>>

\* The end of a row
RowEnd(e) == e.type = "End" /\ e.name = "tr"

\* C18: the end of a row read in a state other than Off with a tag captured
\* yields exactly one record, made of the captured tag and of the captured
\* name, alias, vr, vm and notes (absent when not captured); after it the six
\* scratch fields are absent and the state is InTable.
C18_RowEndEmitsCaptured ==
    [][(RowEnd(read_event) /\ it.state # "Off" /\ it.tag # None /\ pos' = pos + 1) =>
          /\ yielded' = Append(yielded,
                 ItemOk([tag |-> unwrap(it.tag), name |-> it.name,
                         alias |-> it.keyword, vr |-> it.vr, vm |-> it.vm,
                         obs |-> it.obs]))
          /\ Scratch(it') = NoScratch
          /\ it'.state = "InTable"]_vars

\* The end of a row of three cells has just been read: the record has the
\* three captured fields, the other three are absent.
C18_Witness ==
    /\ pos > 0
    /\ RowEnd(doc[pos])
    /\ yielded # <<>>
    /\ yielded[Len(yielded)].kind = "record"
    /\ yielded[Len(yielded)].entry.alias # None
    /\ yielded[Len(yielded)].entry.vr = None
    /\ it.state = "InTable"
    /\ Scratch(it) = NoScratch

\* C19 as stated: the end of a row of the table body read when no tag has been
\* captured yields no record and puts the state back to InTable.
C19_TaglessRowEndReturnsToInTable ==
    [][(/\ RowEnd(read_event)
        /\ it.state \notin {"Off", "InTableHead"}
        /\ ~Ended
        /\ it.tag = None
        /\ pos' = pos + 1) =>
          (yielded' = yielded /\ it'.state = "InTable")]_vars

\* C20 as stated: once next has returned None at the end of the table body, no
\* later call yields a record.
C20_NoRecordAfterBodyEnd ==
    \A i \in 1..Len(yielded) :
        (\E j \in 1..(i - 1) : yielded[j].kind = "none") => yielded[i].kind # "record"


(***************************************************************************)
(* Claims on the emission                                                  *)
(***************************************************************************)

\* Every character of s is one of 0-9, A-F.
UpperHexText(s) == \A i \in 1..Len(s) : \E k \in 1..Len(UpperHex) : UpperHex[k] = s[i]

\* The shape of a tag text in the bracketed grammar (HHHH,HHHH) with xx in
\* place of the last two characters of at most one field; "none" for a text
\* that is not of the grammar.
BracketedShape(tag) ==
    IF Len(tag) # 11 \/ tag[1] # "(" \/ tag[6] # "," \/ tag[11] # ")" THEN "none"
    ELSE LET g == SubSeq(tag, 2, 5)
             e == SubSeq(tag, 7, 10)
             gx == SubSeq(g, 3, 4) = <<"x", "x">>
             ex == SubSeq(e, 3, 4) = <<"x", "x">>
         IN  CASE gx /\ ex -> "none"
               [] gx /\ ~ex /\ UpperHexText(SubSeq(g, 1, 2)) /\ UpperHexText(e) -> "Group100"
               [] ex /\ ~gx /\ UpperHexText(g) /\ UpperHexText(SubSeq(e, 1, 2)) -> "Element100"
               [] ~gx /\ ~ex /\ UpperHexText(g) /\ UpperHexText(e) -> "Single"
               [] OTHER -> "none"

\* The record the next turn of the loop of to_code_file takes
TurnTaken == epc = "for" /\ epos < Len(xml_entries) /\ epos' = epos + 1

\* The record is retired and the configuration excludes retired attributes.
ExcludedAsRetired(e) == config.no_retired /\ e.obs = Some(RET)

\* A line of the generated table with the comment of a retired attribute
RetiredLine(l) == l.kind = "entry" /\ l.obs = <<" ", "/", "/", " ", "R", "E", "T">>

\* The lines of the generated table between the header and the closing line
EntryLines == SelectSeq(codeFile, LAMBDA l : l.kind = "entry")

\* C12 as stated (its first part): when the configuration excludes retired
\* attributes, no line of the generated table is that of a retired record,
\* wherever the source is.
C12_RetiredExcludedOnRequest ==
    (config.format = "rs" /\ config.no_retired) =>
        \A i \in 1..Len(codeFile) : ~RetiredLine(codeFile[i])

\* C13 as stated: a record with an alias, not excluded as retired, whose tag
\* text is of the bracketed grammar gives exactly one line, with the variant of
\* its shape: Group100 for (HHxx,HHHH), Element100 for (HHHH,HHxx), Single for
\* (HHHH,HHHH). (Records whose VR has at least two characters.)
C13_WildcardsClassified ==
    [][(/\ TurnTaken
        /\ xml_entries[epos + 1].alias # None
        /\ ~ExcludedAsRetired(xml_entries[epos + 1])
        /\ BracketedShape(xml_entries[epos + 1].tag) # "none"
        /\ Len(NormalizedVr(xml_entries[epos + 1].vr)) >= 2) =>
          /\ Len(codeFile') = Len(codeFile) + 1
          /\ codeFile'[Len(codeFile')].kind = "entry"
          /\ codeFile'[Len(codeFile')].variant
                = BracketedShape(xml_entries[epos + 1].tag)]_vars

\* C14: a record whose tag text is not of the bracketed grammar writes no line
\* and fails nothing, whatever the setting for retired attributes, and the loop
\* goes on with the records after it.
C14_UnclassifiableSkipped ==
    [][(TurnTaken /\ BracketedShape(xml_entries[epos + 1].tag) = "none") =>
          (codeFile' = codeFile /\ epc' = "for")]_vars

\* A record with an alias and a tag text without its closing parenthesis was
\* followed by an attribute: the table has the line of the attribute only.
C14_Witness ==
    /\ epc = "done"
    /\ config.format = "rs"
    /\ Len(xml_entries) = 2
    /\ xml_entries[1].tag = <<"(", "0", "0", "2", "8", ",", "0", "0", "1", "0">>
    /\ xml_entries[1].alias # None
    /\ xml_entries[2].tag = <<"(", "0", "0", "2", "8", ",", "0", "0", "1", "0", ")">>
    /\ xml_entries[2].alias = Some(<<"R", "o", "w", "s">>)
    /\ Len(EntryLines) = 1
    /\ EntryLines[1].alias = <<"R", "o", "w", "s">>

\* The records that survive: alias present, not excluded as retired, tag text
\* of the bracketed grammar
Survives(e) ==
    /\ e.alias # None
    /\ ~ExcludedAsRetired(e)
    /\ BracketedShape(e.tag) # "none"

Survivors == SelectSeq(xml_entries, Survives)

\* C15 as stated: whatever the records, the emission of the generated table
\* completes, and the complete table has exactly one line for each surviving
\* record, in the order of the records.
C15_EmissionCompletes ==
    config.format = "rs" =>
        /\ epc # "panicked"
        /\ epc = "done" =>
              /\ Len(EntryLines) = Len(Survivors)
              /\ \A i \in 1..Len(EntryLines) :
                    EntryLines[i].alias = unwrap(Survivors[i].alias)

\* The tag texts of the records
KeysOf(recs) == {recs[i].tag : i \in 1..Len(recs)}

\* The last of the records with the tag text t
LastWithTag(recs, t) ==
    recs[CHOOSE i \in 1..Len(recs) :
            /\ recs[i].tag = t
            /\ \A j \in (i + 1)..Len(recs) : recs[j].tag # t]

\* The value v of the data file is the record e.
SameRecord(v, e) ==
    /\ v.tag = e.tag /\ v.name = e.name /\ v.alias = e.alias
    /\ v.vr = e.vr /\ v.vm = e.vm
    /\ IF e.obs = None THEN "obs" \notin DOMAIN v
       ELSE "obs" \in DOMAIN v /\ v.obs = unwrap(e.obs)

\* The text a comes before the text b: at the first place where they differ a
\* has ended or has the lesser byte.
KeyBefore(a, b) ==
    \E i \in 1..(Len(a) + 1) :
        /\ i <= Len(b)
        /\ \A j \in 1..(i - 1) : a[j] = b[j]
        /\ (i = Len(a) + 1 \/ ByteOf(a[i]) < ByteOf(b[i]))

\* C16: the data file is a mapping from tag text to record, its keys in
\* ascending order whatever the order of the records, with exactly one key for
\* each distinct tag text, and under each key the last of the records with
\* that tag text.
C16_JsonKeyedLastWins ==
    (config.format = "json" /\ epc = "done") =>
        /\ \A i \in 1..(Len(jsonFile) - 1) :
              KeyBefore(jsonFile[i].key, jsonFile[i + 1].key)
        /\ {jsonFile[i].key : i \in 1..Len(jsonFile)} = KeysOf(xml_entries)
        /\ Len(jsonFile) = Cardinality(KeysOf(xml_entries))
        /\ \A i \in 1..Len(jsonFile) :
              SameRecord(jsonFile[i].value, LastWithTag(xml_entries, jsonFile[i].key))

\* Three records were written: the first and the third have the same tag text
\* and differ, the second has a lesser tag text; the file has two keys.
C16_Witness ==
    /\ config.format = "json"
    /\ epc = "done"
    /\ Len(xml_entries) = 3
    /\ xml_entries[1].tag = xml_entries[3].tag
    /\ xml_entries[1] # xml_entries[3]
    /\ KeyBefore(xml_entries[2].tag, xml_entries[1].tag)
    /\ Len(jsonFile) = 2

\* C17 as stated: a record without alias adds no key to the data file and no
\* line to the generated table.
C17_NoOutputWithoutAlias ==
    /\ [](\A i \in 1..Len(jsonFile) : jsonFile[i].value.alias # None)
    /\ [][(TurnTaken /\ xml_entries[epos + 1].alias = None) => codeFile' = codeFile]_vars


(***************************************************************************)
(* Claims on the states of the extraction pipeline                         *)
(***************************************************************************)

\* The states of the table body, in the order of the columns
CellChain ==
    <<"InTable", "InCellTag", "InCellName", "InCellKeyword", "InCellVR",
      "InCellVM", "InCellObs", "InCellUnknown">>

\* The place of a state in the chain, 0 for Off and InTableHead
ChainIndex(st) == IndexOf(CellChain, st, 1)

\* The state one step on, InCellUnknown being the last
OneStepOn(st) ==
    IF ChainIndex(st) < Len(CellChain) THEN CellChain[ChainIndex(st) + 1] ELSE st

\* The scratch field of the j-th column: tag, name, alias, vr, vm, notes
ColumnField(j) ==
    CASE j = 1 -> "tag" [] j = 2 -> "name" [] j = 3 -> "keyword"
      [] j = 4 -> "vr" [] j = 5 -> "vm" [] j = 6 -> "obs"
      [] OTHER -> "none"

RECURSIVE WithoutZwsp(_)
WithoutZwsp(s) ==
    IF s = <<>> THEN <<>>
    ELSE IF Head(s) = ZWSP THEN WithoutZwsp(Tail(s))
    ELSE <<Head(s)>> \o WithoutZwsp(Tail(s))

\* An event is read while the pipeline is inside the body of the table.
InBody == ChainIndex(it.state) > 0 /\ ~Ended /\ pos' = pos + 1

CellStart(e) == e.type = "Start" /\ e.name = "para"

\* C21: inside the table body a cell-start moves the state exactly one step
\* along the chain, any other element-start leaves it where it is, the state
\* InCellUnknown is left only at the end of a row, and a text read in the state
\* of a column sets the scratch field of that column, and no other, to the
\* text without its zero width spaces.
C21_CellsStepThroughColumns ==
    [][InBody =>
          /\ CellStart(read_event) =>
                (it'.state = OneStepOn(it.state) /\ Scratch(it') = Scratch(it))
          /\ (read_event.type = "Start" /\ ~CellStart(read_event)) =>
                (it'.state = it.state /\ Scratch(it') = Scratch(it))
          /\ (it.state = "InCellUnknown" /\ it'.state # "InCellUnknown") =>
                RowEnd(read_event)
          /\ (/\ read_event.type = "Text"
              /\ ChainIndex(it.state) \in 2..7
              /\ ~panicked') =>
                it' = [it EXCEPT ![ColumnField(ChainIndex(it.state) - 1)] =
                          Some(WithoutZwsp(unescape(read_event.data).value))]]_vars

\* The seventh cell of a row has started: the state is InCellUnknown and the
\* six scratch fields hold the texts of the six cells before it.
C21_Witness ==
    /\ it.state = "InCellUnknown"
    /\ ~Ended
    /\ \A j \in 1..6 : Scratch(it)[j] # None
    /\ pos > 0
    /\ CellStart(doc[pos])

\* Reading the event fails: the Reader returns an error, or an attribute of
\* the start of a table that is looked at in the state Off cannot be parsed.
ReadFails(e) ==
    \/ e.type = "Err"
    \/ /\ e.type = "Start"
       /\ e.name = "table"
       /\ it.state = "Off"
       /\ \E k \in 1..Len(e.attrs) :
             /\ e.attrs[k] = "malformed"
             /\ \A j \in 1..(k - 1) : e.attrs[j] # "id_target"

\* The rows have six cells with text and the only failure is a failed read.
SixCellRowsReadError(sh) ==
    /\ sh.id = "id_target"
    /\ sh.fault = "readErr"
    /\ \A i \in 1..Len(sh.rows) : sh.rows[i] \in {"plain", "emph", "marked"}

\* C22: a failed read makes next return a failure item and nothing else: the
\* state and the six scratch fields are what they were, what was yielded
\* before is untouched, and the calls after it go on from that state, so that
\* the records of the rows are those of the document without the failure.
C22_FailureItemKeepsState ==
    /\ [][(ReadFails(read_event) /\ pos' = pos + 1) =>
              /\ yielded' = Append(yielded, ItemErr)
              /\ it'.state = it.state
              /\ Scratch(it') = Scratch(it)
              /\ ~panicked']_vars
    /\ [](SixCellRowsReadError(docShape) =>
              /\ Ended => Len(Records(Produced)) = Len(docShape.rows)
              /\ \A i \in 1..Len(Records(Produced)) :
                    Records(Produced)[i] = ItemOk(RecordOfTexts(
                        [col \in 1..6 |-> CellTextCleaned(i, col, docShape.rows[i])])))

\* A read failed inside the first row of two; the failure item was yielded,
\* then the records of both rows, then the end.
C22_Witness ==
    /\ SixCellRowsReadError(docShape)
    /\ Len(docShape.rows) = 2
    /\ Ended
    /\ Len(Produced) = 3
    /\ Produced[1] = ItemErr
    /\ Produced[2].kind = "record"
    /\ Produced[3].kind = "record"

\* C23 as stated: no failure met while extracting aborts the pipeline.
C23_NoFailureAborts == ~panicked

\* C24: in the states Off, InTableHead and InTable the six scratch fields are
\* absent, and the state does not come back to Off.
C24_ScratchOnlyInCells ==
    /\ [](it.state \in {"Off", "InTableHead", "InTable"} => Scratch(it) = NoScratch)
    /\ [][it.state # "Off" => it'.state # "Off"]_vars

\* The record of the first row has been yielded and the second row starts:
\* the state is InTable and nothing is left of the first row.
C24_Witness ==
    /\ it.state = "InTable"
    /\ Len(Records(yielded)) = 1
    /\ ~Ended
    /\ read_event.type = "Start"
    /\ read_event.name = "tr"
    /\ Scratch(it) = NoScratch

\* The digit of the row in a cell text r<row>c<col>, "" for other texts
RowMark(t) == IF Len(t) >= 2 /\ t[1] = "r" THEN t[2] ELSE ""

\* Every field of the record that is a cell text is of the row of its tag.
FieldsOfOneRow(e) ==
    \A f \in {e.name, e.alias, e.vr, e.vm, e.obs} :
        f = None \/ RowMark(unwrap(f)) \in {"", RowMark(e.tag)}

RECURSIVE CellsStarted(_)
\* How many cells of the row have started when the events up to the k-th have
\* been read
CellsStarted(k) ==
    IF k = 0 THEN 0
    ELSE IF doc[k].type = "Start" /\ doc[k].name = "tr" THEN 0
    ELSE (IF CellStart(doc[k]) THEN 1 ELSE 0) + CellsStarted(k - 1)

\* C25 as stated: the fields of a record are texts of one row, and a text of
\* the j-th cell of a row of the table body is assigned to the j-th column or
\* to none, whatever the rows before it were.
C25_RowIsolation ==
    /\ [](\A i \in 1..Len(yielded) :
              yielded[i].kind = "record" => FieldsOfOneRow(yielded[i].entry))
    /\ [][(InBody /\ read_event.type = "Text" /\ it' # it) =>
              LET f == ColumnField(CellsStarted(pos))
              IN  /\ f # "none"
                  /\ it' = [it EXCEPT ![f] = it'[f]]]_vars

=============================================================================
